---- MODULE Spec2Model ----
(***************************************************************************)
(* Model of IBT_2_Servocontroller.ino: a PID position servo for an IBT_2   *)
(* H-bridge.  loop() runs statement by statement; the pin-change interrupt *)
(* timeit() runs atomically between any two steps of loop(), and between   *)
(* the partial loads of a multi-byte read of the shared variable pwm.      *)
(*                                                                         *)
(* Numbers of type double are held as integers counting units of 1/One,    *)
(* One = 2^FracBits: a binary floating-point type has finitely many        *)
(* fraction bits, and a result that needs more is rounded to the nearest   *)
(* representable value, ties to even.                                      *)
(***************************************************************************)
EXTENDS Integers, Sequences, FiniteSets

------------------------------------------------------------------------------
(* Bounds of the model *)

\* fraction bits kept by a double
FracBits == 1
\* bits of an unsigned long / long
WordBits == 20
\* falling edges of the command signal
MaxPulses == 2
\* idle periods that may elapse
MaxElapse == 2
\* microseconds on the clock when setup() has returned
SetupMicros == 2000
MaxIdle == 4

One == 2 ^ FracBits
ULongMod == 2 ^ WordBits

\* high times of the command signal, in microseconds
PulseWidths == {1500, 1601}
\* time that passes with no edge of the command signal, in microseconds
IdleMicros == {50000}
\* readings analogRead(potPin) returns
PotValues == {200, 500}
\* results PID1.Compute() stores in Output1, in units of 1/One
OutputValues == {-((15 * One) \div 2), -4 * One, 3 * One, 5 * One}

------------------------------------------------------------------------------
(* Program constants *)

deadband == 5 * One
interval == 50
potMin == 0
potMax == 400
pwmMin == 1000
pwmMax == 2000
outputMin == -200
outputMax == 200
alphaLowPass == One \div 2
alphaHighPass == One \div 2
\* one memory access of the target (an 8-bit AVR) moves one byte
ByteMod == 2 ^ 8

VARIABLES
  clock,          \* hardware time in microseconds
  level,          \* level of pwmInputPin
  nPulses,        \* falling edges so far
  nElapse,        \* idle periods so far
  pwm, done, start,
  currentMillis, previousMillis,
  pot, filteredPWM, highPassPWM, previousPWM,
  Setpoint1, Input1, Output1, Output1a,
  out1, out2,     \* duty last written to motorPin1, motorPin2
  pc,             \* next statement of loop()
  lo,             \* low byte of pwm already loaded by the read in progress
  reads,          \* history: every value loop() has read from pwm
  published,      \* history: every value pwm has held
  staleTicks,     \* history: ticks entered since the last falling edge
  riseAt,         \* history: clock when the signal went, or was found, high
  tickAt,         \* history: time in ms the last executed tick sampled
  tickBefore      \* history: tickAt of the executed tick before the last

vars == <<clock, level, nPulses, nElapse, pwm, done, start, currentMillis,
          previousMillis, pot, filteredPWM, highPassPWM, previousPWM,
          Setpoint1, Input1, Output1, Output1a, out1, out2, pc, lo, reads,
          published, staleTicks, riseAt, tickAt, tickBefore>>

isrVars == <<pwm, done, start>>
envVars == <<clock, level, nPulses, nElapse>>
timeVars == <<currentMillis, previousMillis>>
filterVars == <<filteredPWM, highPassPWM, previousPWM>>
pidVars == <<pot, Setpoint1, Input1, Output1, Output1a>>
driveVars == <<out1, out2>>
histVars == <<reads, published, staleTicks, riseAt, tickAt, tickBefore>>

------------------------------------------------------------------------------
(* Arithmetic of the target *)

\* C integer division: truncates toward zero
CDiv(a, b) ==
  IF (a >= 0) = (b > 0) THEN (IF a >= 0 THEN a ELSE -a) \div (IF b > 0 THEN b ELSE -b)
  ELSE -((IF a >= 0 THEN a ELSE -a) \div (IF b > 0 THEN b ELSE -b))

\* x / d rounded to the nearest integer, ties to even (d > 0)
RoundDiv(x, d) ==
  LET q == x \div d
      r == x % d
  IN  IF 2 * r < d THEN q
      ELSE IF 2 * r > d THEN q + 1
      ELSE IF q % 2 = 0 THEN q ELSE q + 1

\* integer -> double
ToDouble(n) == n * One
\* double -> long / int: the fraction is discarded
ToInt(x) == IF x >= 0 THEN x \div One ELSE -((-x) \div One)
\* unsigned long -> long and back
ToLong(u) == IF u >= ULongMod \div 2 THEN u - ULongMod ELSE u
ToULong(n) == n % ULongMod

micros == clock % ULongMod
millis == (clock \div 1000) % ULongMod

abs(x) == IF x > 0 THEN x ELSE -x

\* a range mapping that limits its argument to [in_min, in_max]
mapConstrained(x, in_min, in_max, out_min, out_max) ==
  CDiv(((IF x < in_min THEN in_min ELSE IF x > in_max THEN in_max ELSE x)
          - in_min) * (out_max - out_min), in_max - in_min) + out_min

map(x, in_min, in_max, out_min, out_max) ==
  CDiv((x - in_min) * (out_max - out_min), in_max - in_min) + out_min

\* a low-pass filter that takes the new sample as it is
lowPassFilterSnap(newPWM, filtered, alpha) == newPWM

lowPassFilter(newPWM, filtered, alpha) ==
  RoundDiv(alpha * newPWM + (One - alpha) * filtered, One)

\* a high-pass filter evaluated after previousPWM took the new sample
highPassFilterAfterUpdate(newPWM, previous, alpha) ==
  RoundDiv(alpha * (highPassPWM + newPWM - newPWM), One)

highPassFilter(newPWM, previous, alpha) ==
  RoundDiv(alpha * (highPassPWM + newPWM - previous), One)

\* duty analogWrite(pin, val) sets for a double argument
analogWrite(val) == ToInt(val)

------------------------------------------------------------------------------
Init ==
  /\ clock = SetupMicros
  /\ level \in {"LOW", "HIGH"}
  /\ nPulses = 0 /\ nElapse = 0
  /\ pwm = 0 /\ done = FALSE /\ start = 0
  /\ currentMillis = 0 /\ previousMillis = 0
  /\ pot = 0
  /\ filteredPWM = ToDouble(1500)
  /\ highPassPWM = 0
  /\ previousPWM = ToDouble(1500)
  /\ Setpoint1 = 0 /\ Input1 = 0 /\ Output1 = 0 /\ Output1a = 0
  /\ out1 = 0 /\ out2 = 0
  /\ pc = "L87"
  /\ lo = 0
  /\ reads = <<>>
  /\ published = {0}
  /\ staleTicks = 0
  /\ riseAt = SetupMicros
  /\ tickAt = 0 /\ tickBefore = 0
------------------------------------------------------------------------------
(* The interrupt handler and the command signal *)

\* timeit() without the test of the pin: every edge publishes
timeitAnyEdge ==
  /\ pwm' = (micros' - start) % ULongMod
  /\ done' = TRUE
  /\ start' = micros'

\* timeit(), run on the edge that has just set level'
timeit ==
  IF level' = "HIGH"
  THEN /\ start' = micros'
       /\ UNCHANGED <<pwm, done>>
  ELSE /\ pwm' = (micros' - start) % ULongMod
       /\ done' = TRUE
       /\ UNCHANGED start

loopVars == <<timeVars, filterVars, pidVars, driveVars, pc, lo, reads>>

\* rising edge of the command signal
Rise ==
  /\ level = "LOW"
  /\ level' = "HIGH"
  /\ clock' = clock
  /\ timeit
  /\ riseAt' = clock
  /\ UNCHANGED <<nPulses, nElapse, loopVars, published, staleTicks, tickAt,
                 tickBefore>>

\* falling edge, w microseconds after the signal went (or was found) high
Fall(w) ==
  /\ level = "HIGH"
  /\ level' = "LOW"
  /\ clock' = clock + w
  /\ nPulses' = nPulses + 1
  /\ timeit
  /\ published' = published \cup {pwm'}
  /\ staleTicks' = 0
  /\ UNCHANGED <<nElapse, loopVars, riseAt, tickAt, tickBefore>>

\* time passes with no edge
Elapse(d) ==
  /\ clock' = clock + d
  /\ nElapse' = nElapse + 1
  /\ UNCHANGED <<level, nPulses, isrVars, loopVars, published, staleTicks,
                 riseAt, tickAt, tickBefore>>

------------------------------------------------------------------------------
(* loop(), one statement per step.  A read of pwm takes two steps: the low
   byte, then the bytes above it.  The Serial output of lines 101-111
   changes nothing the program reads back and is left out. *)

\* line 88 without the subtraction of previousMillis
TickDueSinceBoot == currentMillis >= interval

\* line 88 written as a comparison with a deadline, in unsigned long:
\* currentMillis >= previousMillis + interval
TickDueDeadline == currentMillis >= ToULong(previousMillis + interval)

\* line 88: currentMillis - previousMillis >= interval, in unsigned long
TickDue == (currentMillis - ToULong(previousMillis)) % ULongMod >= interval

\* the value a read of pwm delivers when its high bytes are loaded now
LoadedPWM == (pwm \div ByteMod) * ByteMod + lo

Goto(from, to) == pc = from /\ pc' = to

\* line 87
SampleMillis ==
  /\ Goto("L87", "L88")
  /\ currentMillis' = millis
  /\ UNCHANGED <<envVars, isrVars, previousMillis, filterVars, pidVars,
                 driveVars, lo, histVars>>

\* the time in ms, not reduced to the width of millis(), at which line 87
\* took the sample held in currentMillis
SampledAt ==
  (clock \div 1000) - (((clock \div 1000) - currentMillis) % ULongMod)

\* lines 88-89 with a schedule of fixed deadlines, previousMillis += interval:
\* a late tick is followed by the ticks that were missed
GateCatchUp ==
  /\ pc = "L88"
  /\ IF TickDue
     THEN /\ previousMillis' = ToLong(ToULong(previousMillis + interval))
          /\ staleTicks' = staleTicks + 1
          /\ tickAt' = SampledAt
          /\ tickBefore' = tickAt
          /\ pc' = "L92"
     ELSE /\ pc' = "L87"
          /\ UNCHANGED <<previousMillis, staleTicks, tickAt, tickBefore>>
  /\ UNCHANGED <<envVars, isrVars, currentMillis, filterVars, pidVars,
                 driveVars, lo, reads, published, riseAt>>

\* lines 88-89: the call returns at once unless a tick is due
Gate ==
  /\ pc = "L88"
  /\ IF TickDue
     THEN /\ previousMillis' = ToLong(currentMillis)
          /\ staleTicks' = staleTicks + 1
          /\ tickAt' = SampledAt
          /\ tickBefore' = tickAt
          /\ pc' = "L92"
     ELSE /\ pc' = "L87"
          /\ UNCHANGED <<previousMillis, staleTicks, tickAt, tickBefore>>
  /\ UNCHANGED <<envVars, isrVars, currentMillis, filterVars, pidVars,
                 driveVars, lo, reads, published, riseAt>>

\* line 92
ReadPot ==
  /\ Goto("L92", "L95")
  /\ \E v \in PotValues : pot' = v
  /\ UNCHANGED <<envVars, isrVars, timeVars, filterVars, Setpoint1, Input1,
                 Output1, Output1a, driveVars, lo, histVars>>

\* first byte of a read of pwm (lines 95, 98, 99)
LoadLow ==
  /\ \/ Goto("L95", "L95h")
     \/ Goto("L98", "L98h")
     \/ Goto("L99", "L99h")
  /\ lo' = pwm % ByteMod
  /\ UNCHANGED <<envVars, isrVars, timeVars, filterVars, pidVars, driveVars,
                 histVars>>

\* line 95
LowPass ==
  /\ Goto("L95h", "L98")
  /\ filteredPWM' = lowPassFilter(ToDouble(LoadedPWM), filteredPWM, alphaLowPass)
  /\ reads' = Append(reads, LoadedPWM)
  /\ lo' = 0
  /\ UNCHANGED <<envVars, isrVars, timeVars, highPassPWM, previousPWM, pidVars,
                 driveVars, published, staleTicks, riseAt,
                 tickAt, tickBefore>>

\* line 98
HighPass ==
  /\ Goto("L98h", "L99")
  /\ highPassPWM' = highPassFilter(ToDouble(LoadedPWM), previousPWM, alphaHighPass)
  /\ reads' = Append(reads, LoadedPWM)
  /\ lo' = 0
  /\ UNCHANGED <<envVars, isrVars, timeVars, filteredPWM, previousPWM, pidVars,
                 driveVars, published, staleTicks, riseAt,
                 tickAt, tickBefore>>

\* line 99
UpdatePrevious ==
  /\ Goto("L99h", "L114")
  /\ previousPWM' = ToDouble(LoadedPWM)
  /\ reads' = Append(reads, LoadedPWM)
  /\ lo' = 0
  /\ UNCHANGED <<envVars, isrVars, timeVars, filteredPWM, highPassPWM, pidVars,
                 driveVars, published, staleTicks, riseAt,
                 tickAt, tickBefore>>

\* line 114
MapSetpoint ==
  /\ Goto("L114", "L115")
  /\ Setpoint1' = ToDouble(map(ToInt(filteredPWM), pwmMin, pwmMax, outputMin, outputMax))
  /\ UNCHANGED <<envVars, isrVars, timeVars, filterVars, pot, Input1, Output1,
                 Output1a, driveVars, lo, histVars>>

\* line 115
MapInput ==
  /\ Goto("L115", "L118")
  /\ Input1' = ToDouble(map(pot, potMin, potMax, outputMin, outputMax))
  /\ UNCHANGED <<envVars, isrVars, timeVars, filterVars, pot, Setpoint1, Output1,
                 Output1a, driveVars, lo, histVars>>

\* line 118: PID1.Compute() stores a new output within the limits of line 63,
\* or returns early and leaves Output1 as it is
Compute ==
  /\ Goto("L118", "L121")
  /\ \E v \in OutputValues \cup {Output1} : Output1' = v
  /\ UNCHANGED <<envVars, isrVars, timeVars, filterVars, pot, Setpoint1, Input1,
                 Output1a, driveVars, lo, histVars>>

\* lines 121-123 as a soft threshold: a large output is reduced by deadband
DeadbandSoft ==
  /\ Goto("L121", "L126")
  /\ Output1' = IF abs(Output1) < deadband THEN 0
                ELSE IF Output1 > 0 THEN Output1 - deadband
                ELSE Output1 + deadband
  /\ UNCHANGED <<envVars, isrVars, timeVars, filterVars, pot, Setpoint1, Input1,
                 Output1a, driveVars, lo, histVars>>

\* lines 121-123 left out: a small output is kept
DeadbandSkipped ==
  /\ Goto("L121", "L126")
  /\ UNCHANGED <<envVars, isrVars, timeVars, filterVars, pidVars, driveVars,
                 lo, histVars>>

\* lines 121-123
Deadband ==
  /\ Goto("L121", "L126")
  /\ Output1' = IF abs(Output1) < deadband THEN 0 ELSE Output1
  /\ UNCHANGED <<envVars, isrVars, timeVars, filterVars, pot, Setpoint1, Input1,
                 Output1a, driveVars, lo, histVars>>

\* the branch lines 126, 130 and 134 select
Branch ==
  IF Output1 = 0 THEN "L128"
  ELSE IF Output1 > 0 THEN "L132"
  ELSE IF Output1 < 0 THEN "L136"
  ELSE "L141"

\* lines 126, 130, 134
Dispatch ==
  /\ pc = "L126"
  /\ pc' = Branch
  /\ UNCHANGED <<envVars, isrVars, timeVars, filterVars, pidVars, driveVars,
                 lo, histVars>>

\* what a statement that writes motorPin1 (motorPin2) leaves alone
keep1 == <<envVars, isrVars, timeVars, filterVars, pidVars, out2, lo, histVars>>
keep2 == <<envVars, isrVars, timeVars, filterVars, pidVars, out1, lo, histVars>>

\* line 129 left out: motorPin2 keeps its duty
Stop2Missing ==
  /\ Goto("L129", "L141")
  /\ UNCHANGED <<keep2, out2>>

\* line 133 left out
Forward2Missing ==
  /\ Goto("L133", "L141")
  /\ UNCHANGED <<keep2, out2>>

\* line 137 left out
Reverse1Missing ==
  /\ Goto("L137", "L138")
  /\ UNCHANGED <<keep1, out1>>

\* line 128
Stop1 ==
  /\ Goto("L128", "L129")
  /\ out1' = analogWrite(0)
  /\ UNCHANGED keep1

\* line 129
Stop2 ==
  /\ Goto("L129", "L141")
  /\ out2' = analogWrite(0)
  /\ UNCHANGED keep2

\* line 132
Forward1 ==
  /\ Goto("L132", "L133")
  /\ out1' = analogWrite(Output1)
  /\ UNCHANGED keep1

\* line 133
Forward2 ==
  /\ Goto("L133", "L141")
  /\ out2' = analogWrite(0)
  /\ UNCHANGED keep2

\* line 136
AbsOutput ==
  /\ Goto("L136", "L137")
  /\ Output1a' = abs(Output1)
  /\ UNCHANGED <<envVars, isrVars, timeVars, filterVars, pot, Setpoint1, Input1,
                 Output1, driveVars, lo, histVars>>

\* line 137
Reverse1 ==
  /\ Goto("L137", "L138")
  /\ out1' = analogWrite(0)
  /\ UNCHANGED keep1

\* line 138
Reverse2 ==
  /\ Goto("L138", "L141")
  /\ out2' = analogWrite(Output1a)
  /\ UNCHANGED keep2

\* lines 141-142
CheckDone ==
  /\ pc = "L141"
  /\ pc' = IF ~done THEN "L87" ELSE "L144"
  /\ UNCHANGED <<envVars, isrVars, timeVars, filterVars, pidVars, driveVars,
                 lo, histVars>>

\* line 144
ClearDone ==
  /\ Goto("L144", "L87")
  /\ done' = FALSE
  /\ UNCHANGED <<envVars, pwm, start, timeVars, filterVars, pidVars, driveVars,
                 lo, histVars>>

loop ==
  \/ SampleMillis \/ Gate \/ ReadPot
  \/ LoadLow \/ LowPass \/ HighPass \/ UpdatePrevious
  \/ MapSetpoint \/ MapInput \/ Compute \/ Deadband \/ Dispatch
  \/ Stop1 \/ Stop2 \/ Forward1 \/ Forward2
  \/ AbsOutput \/ Reverse1 \/ Reverse2
  \/ CheckDone \/ ClearDone

\* The command signal and the passage of time, within the bounds.  A pulse
\* lasts a time in PulseWidths; a signal still high after an idle period
\* stays high (the signal is lost).  Idle time is accounted for between two
\* calls of loop().
Signal ==
  \/ nPulses < MaxPulses /\ Rise
  \/ clock = riseAt /\ \E w \in PulseWidths : Fall(w)
  \/ /\ nElapse < MaxElapse
     /\ pc = "L87"
     /\ \E d \in IdleMicros : Elapse(d)

Next == loop \/ Signal

Spec == Init /\ [][Next]_vars

------------------------------------------------------------------------------
(* The reference run: the command signal delivers the pulses RefSamples, one
   before each tick, each between two calls of loop() *)

RefSamples == <<1500, 1600, 1500, 1400>>

RefSignal ==
  \/ /\ pc = "L87"
     /\ nPulses < Len(RefSamples) /\ nPulses = nElapse
     /\ Rise
  \/ /\ pc = "L87"
     /\ clock = riseAt /\ nPulses < Len(RefSamples)
     /\ Fall(RefSamples[nPulses + 1])
  \/ /\ pc = "L87"
     /\ level = "LOW" /\ nElapse < nPulses
     /\ \E d \in IdleMicros : Elapse(d)

NextRef == loop \/ RefSignal

InitRef == Init /\ level = "LOW"

SpecRef == InitRef /\ [][NextRef]_vars

------------------------------------------------------------------------------
(* The tick gate under irregular calls: loop() is called again 20 ms, 50 ms
   or 120 ms after its last call returned, with no further edge of the
   command signal.  The run starts after one pulse has been captured, either
   just after setup or just after an executed tick a little before millis()
   crosses half its range or wraps; the histories start afresh. *)

IdleTimes == {20000, 50000, 120000}

\* millis() of an executed tick shortly before half range and before the wrap
TickTimes == {ULongMod \div 2 - 60, ULongMod - 60}

Idle ==
  /\ nElapse < MaxIdle
  /\ pc = "L87"
  /\ \E d \in IdleTimes : Elapse(d)

NextGate == loop \/ Idle

InitGate ==
  /\ clock = SetupMicros + 1500
  /\ level = "LOW"
  /\ nPulses = 1 /\ nElapse = 0
  /\ pwm = 1500 /\ done = TRUE /\ start = SetupMicros
  /\ currentMillis = 0 /\ previousMillis = 0
  /\ pot = 0
  /\ filteredPWM = ToDouble(1500)
  /\ highPassPWM = 0
  /\ previousPWM = ToDouble(1500)
  /\ Setpoint1 = 0 /\ Input1 = 0 /\ Output1 = 0 /\ Output1a = 0
  /\ out1 = 0 /\ out2 = 0
  /\ pc = "L87"
  /\ lo = 0
  /\ reads = <<>>
  /\ published = {0, 1500}
  /\ staleTicks = 0
  /\ riseAt = SetupMicros
  /\ tickAt = 0 /\ tickBefore = 0

SpecGate == InitGate /\ [][NextGate]_vars

InitWrap ==
  /\ \E t \in TickTimes :
       /\ clock = 1000 * t + 1500
       /\ start = (1000 * t) % ULongMod
       /\ riseAt = 1000 * t
       /\ currentMillis = t
       /\ previousMillis = ToLong(t)
       /\ tickAt = t
       /\ tickBefore = t - interval
  /\ level = "LOW"
  /\ nPulses = 1 /\ nElapse = 0
  /\ pwm = 1500 /\ done = TRUE
  /\ pot = 200
  /\ filteredPWM = ToDouble(1500)
  /\ highPassPWM = 0
  /\ previousPWM = ToDouble(1500)
  /\ Setpoint1 = 0 /\ Input1 = 0 /\ Output1 = 0 /\ Output1a = 0
  /\ out1 = 0 /\ out2 = 0
  /\ pc = "L87"
  /\ lo = 0
  /\ reads = <<>>
  /\ published = {0, 1500}
  /\ staleTicks = 0

SpecWrap == InitWrap /\ [][NextGate]_vars

------------------------------------------------------------------------------
(* The range mapping alone: lines 114-115 applied to sensor readings over the
   range of analogRead and to filtered pulse widths inside and outside
   [pwmMin, pwmMax] *)

PotSamples == {25 * i : i \in 0..40} \cup {1023}
FilteredSamples ==
  {p * One : p \in {0, 750, 1000, 1250, 1500, 1750, 2000, 2500}}
    \cup {1500 * One + One \div 2, 999 * One + One \div 2}

InitMap ==
  /\ clock = SetupMicros
  /\ level = "LOW"
  /\ nPulses = 0 /\ nElapse = 0
  /\ pwm = 0 /\ done = FALSE /\ start = 0
  /\ currentMillis = 0 /\ previousMillis = 0
  /\ pot \in PotSamples
  /\ filteredPWM \in FilteredSamples
  /\ highPassPWM = 0
  /\ previousPWM = ToDouble(1500)
  /\ Setpoint1 = 0 /\ Input1 = 0 /\ Output1 = 0 /\ Output1a = 0
  /\ out1 = 0 /\ out2 = 0
  /\ pc = "L114"
  /\ lo = 0
  /\ reads = <<>>
  /\ published = {0}
  /\ staleTicks = 0
  /\ riseAt = SetupMicros
  /\ tickAt = 0 /\ tickBefore = 0

NextMap == MapSetpoint \/ MapInput

SpecMap == InitMap /\ [][NextMap]_vars

------------------------------------------------------------------------------
(* The stages after Compute alone: lines 121-139 applied to every output the
   limits of line 63 allow, at the resolution of the model *)

OutputRange == (outputMin * One)..(outputMax * One)

InitDrive ==
  /\ clock = SetupMicros
  /\ level = "LOW"
  /\ nPulses = 0 /\ nElapse = 0
  /\ pwm = 0 /\ done = FALSE /\ start = 0
  /\ currentMillis = 0 /\ previousMillis = 0
  /\ pot = 0
  /\ filteredPWM = ToDouble(1500)
  /\ highPassPWM = 0
  /\ previousPWM = ToDouble(1500)
  /\ Setpoint1 = 0 /\ Input1 = 0 /\ Output1a = 0
  /\ Output1 \in OutputRange
  /\ out1 = 0 /\ out2 = 0
  /\ pc = "L121"
  /\ lo = 0
  /\ reads = <<>>
  /\ published = {0}
  /\ staleTicks = 0
  /\ riseAt = SetupMicros
  /\ tickAt = 0 /\ tickBefore = 0

NextDrive ==
  \/ Deadband \/ Dispatch
  \/ Stop1 \/ Stop2 \/ Forward1 \/ Forward2
  \/ AbsOutput \/ Reverse1 \/ Reverse2

SpecDrive == InitDrive /\ [][NextDrive]_vars

------------------------------------------------------------------------------
(* Ticks on which PID1.Compute() returns without computing: a first tick has
   computed any output within the limits, the calls of Compute() on the ticks
   after it leave Output1 alone, and the command signal has no edge *)

\* line 118, less than one sample time after the last computation
ComputeNoOp ==
  /\ Goto("L118", "L121")
  /\ UNCHANGED <<envVars, isrVars, timeVars, filterVars, pidVars, driveVars,
                 lo, histVars>>

NextNoOp ==
  \/ SampleMillis \/ Gate \/ ReadPot
  \/ LoadLow \/ LowPass \/ HighPass \/ UpdatePrevious
  \/ MapSetpoint \/ MapInput \/ ComputeNoOp \/ Deadband \/ Dispatch
  \/ Stop1 \/ Stop2 \/ Forward1 \/ Forward2
  \/ AbsOutput \/ Reverse1 \/ Reverse2
  \/ CheckDone
  \/ (nElapse < MaxElapse /\ pc = "L87" /\ \E d \in IdleMicros : Elapse(d))

SpecNoOp == InitDrive /\ [][NextNoOp]_vars

------------------------------------------------------------------------------
(* Claims *)

\* a tick has written both channels and not yet returned
TickEnd == pc \in {"L141", "L144"}

\* ticks that have read pwm three times
TicksRead == Len(reads) \div 3

\* C1: in every reachable state, also between the two channel writes of one
\* tick, motorPin1 and motorPin2 never both hold a nonzero duty.
C1_NeverBothDriven == ~(out1 # 0 /\ out2 # 0)

\* C2: when a tick has written both channels, at most one of the two duties
\* is nonzero.
C2_TickEndsOneSided == TickEnd => (out1 = 0 \/ out2 = 0)

\* a forward tick after an earlier reverse tick
C2_Witness == pc = "L141" /\ out1 # 0 /\ out2 = 0 /\ Output1 > 0 /\ Output1a # 0

\* C3: a PID output with |output| < deadband is replaced by exactly 0, one
\* with |output| = deadband is kept, and a tick whose output is 0 leaves
\* zero on both channels.
C3_DeadbandStops ==
  /\ [][(pc = "L121" /\ pc' # pc) =>
          /\ (-Output1 < 5 * One /\ Output1 < 5 * One) => Output1' = 0
          /\ (Output1 = 5 * One \/ Output1 = -5 * One) => Output1' = Output1]_vars
  /\ [](TickEnd /\ Output1 = 0 => out1 = 0 /\ out2 = 0)

\* a stopped tick after an earlier reverse tick
C3_Witness == pc = "L141" /\ Output1 = 0 /\ Output1a # 0 /\ out1 = 0 /\ out2 = 0

\* C4 as stated: outside the deadband the forward duty is the output itself
\* (reverse 0) for a positive output and the reverse duty is |output|
\* (forward 0) for a negative one.
C4_MagnitudeIsOutput ==
  TickEnd =>
    /\ Output1 > 0 => (out1 * One = Output1 /\ out2 = 0)
    /\ Output1 < 0 => (out1 = 0 /\ out2 * One = -Output1)

\* C4 amended: the duty written is the integer part of the output's
\* magnitude (the fraction is discarded); the other channel is written 0,
\* and an output of 0 writes 0 to both.
C4_MagnitudeIsIntegerPart ==
  TickEnd =>
    /\ Output1 = 0 => (out1 = 0 /\ out2 = 0)
    /\ Output1 > 0 =>
         (out1 * One <= Output1 /\ Output1 < (out1 + 1) * One /\ out2 = 0)
    /\ Output1 < 0 =>
         (out1 = 0 /\ out2 * One <= -Output1 /\ -Output1 < (out2 + 1) * One)

C4_Witness ==
  /\ pc = "L141" /\ TicksRead >= 2
  /\ Output1 < 0 /\ out2 * One # -Output1 /\ out2 # 0 /\ out1 = 0

\* C5: a call of loop() made less than interval milliseconds after the last
\* executed tick returns without changing previousMillis, the filter state,
\* Setpoint1, Input1, Output1 or either channel.
C5_EarlyCallSkipped ==
  [][/\ (pc = "L87" /\ pc' # pc) =>
          UNCHANGED <<previousMillis, filterVars, Setpoint1, Input1, Output1,
                      driveVars>>
     /\ (/\ pc = "L88" /\ pc' # pc
         /\ (currentMillis - previousMillis) % ULongMod < 50) =>
          /\ pc' = "L87"
          /\ UNCHANGED <<previousMillis, filterVars, Setpoint1, Input1,
                         Output1, driveVars>>]_vars

C5_Witness ==
  /\ pc = "L87" /\ TicksRead >= 1
  /\ currentMillis # previousMillis % ULongMod
  /\ (currentMillis - previousMillis) % ULongMod < 50
  /\ out2 # 0
\* reads of pwm the tick in progress has completed
ReadsThisTick ==
  IF pc \in {"L87", "L88", "L92", "L95", "L95h"} THEN 0
  ELSE IF pc \in {"L98", "L98h"} THEN 1
  ELSE IF pc \in {"L99", "L99h"} THEN 2
  ELSE 3

\* C6: within one tick the low-pass filter, the high-pass filter and the
\* update of previousPWM use the same raw sample, whenever timeit() runs.
C6_OneSamplePerTick ==
  (pc = "L114" /\ Len(reads) >= 3) =>
    /\ reads[Len(reads)] = reads[Len(reads) - 1]
    /\ reads[Len(reads)] = reads[Len(reads) - 2]

\* C7: every value loop() reads from pwm is a value one falling edge
\* published, or the initial value.
C7_NoTornRead == \A i \in DOMAIN reads : reads[i] \in published

\* the reads of the first k ticks of the reference run
RefReads(k) == [i \in 1..(3 * k) |-> RefSamples[(i + 2) \div 3]]
RefLowPass == <<1500 * One, 1550 * One, 1525 * One, (2925 * One) \div 2>>
RefHighPass == <<0, 50 * One, -25 * One, -((125 * One) \div 2)>>

\* C8: with alpha = 0.5 and the raw samples 1500, 1600, 1500, 1400 from the
\* initial state, the k-th tick leaves the low-pass value 1500, 1550, 1525,
\* 1462.5, the high-pass value 0, 50, -25, -62.5 and previousPWM = the k-th
\* sample: each filter used the state the previous tick left.
C8_ReferenceRun ==
  \A k \in 1..Len(RefSamples) :
    (reads = RefReads(k)) =>
      /\ filteredPWM = RefLowPass[k]
      /\ highPassPWM = RefHighPass[k]
      /\ previousPWM = RefSamples[k] * One

C8_Witness ==
  /\ reads = RefReads(Len(RefSamples))
  /\ filteredPWM = (2925 * One) \div 2
  /\ highPassPWM = -((125 * One) \div 2)

\* reads completed by the ticks entered since the last falling edge
StaleReads ==
  IF staleTicks = 0 THEN 0 ELSE 3 * (staleTicks - 1) + ReadsThisTick

\* C9: a rising edge changes neither pwm nor done, and only a falling edge
\* changes pwm; every read of a tick entered after the last falling edge
\* returns that same pulse width; such a tick still derives the setpoint
\* from the filtered pulse width and still drives a nonzero output.
C9_StaleSamplePersists ==
  /\ [][(level = "LOW" /\ level' = "HIGH") => UNCHANGED <<pwm, done>>]_vars
  /\ [][pwm' # pwm => (level = "HIGH" /\ level' = "LOW")]_vars
  /\ [](\A i \in 1..Len(reads) : i > Len(reads) - StaleReads => reads[i] = pwm)
  /\ [](TickEnd /\ staleTicks >= 1 =>
          /\ Setpoint1 = One * map(ToInt(filteredPWM), 1000, 2000, -200, 200)
          /\ Output1 > 0 => out1 > 0
          /\ Output1 < 0 => out2 > 0)

C9_Witness ==
  /\ pc = "L141" /\ staleTicks >= 2 /\ nPulses >= 1
  /\ level = "HIGH" /\ ~done
  /\ out2 > 0

\* |x - y|
Dist(x, y) == IF x >= y THEN x - y ELSE y - x

\* the low-pass step of a tick entered after the last falling edge
StaleLowPassStep == pc = "L95h" /\ pc' = "L98" /\ staleTicks >= 1

C12_DutyRange ==
  /\ out1 \in 0..outputMax
  /\ out2 \in 0..outputMax
  /\ out1 # 0 => out1 * One >= deadband
  /\ out2 # 0 => out2 * One >= deadband

C12_Witness ==
  /\ pc = "L141"
  /\ Output1 = outputMin * One
  /\ out1 = 0 /\ out2 = 200
\* the last executed tick made its three reads of pwm and all three returned
\* the same pulse width, one measured from a recorded rising edge or the
\* initial value
TickReadOneSample ==
  /\ Len(reads) >= 3
  /\ ReadsThisTick \in {0, 3}
  /\ reads[Len(reads)] = reads[Len(reads) - 1]
  /\ reads[Len(reads)] = reads[Len(reads) - 2]
  /\ start = riseAt % ULongMod

\* C13: done tracks fresh samples: while done is false, pwm is the value the
\* last executed tick used, that is, a falling edge that publishes a new pwm
\* leaves done true until a tick that has read the new pwm clears it.
C13_DoneTracksFresh ==
  (~done /\ TickReadOneSample) => pwm = reads[Len(reads)]
\* C14: on every falling edge the pulse width that timeit() publishes is the
\* time of this edge less the time the signal went high (riseAt), also when
\* the first edge handled after the interrupt is attached is a falling edge.
C14_PulseIsHighTime ==
  [][(level = "HIGH" /\ level' = "LOW") =>
       pwm' = (clock' - riseAt) % ULongMod]_vars
\* C15: two consecutive executed ticks are at least interval apart by the
\* millis() values they sampled, also after a tick that executed late: a
\* tick executes only when the sample of line 87 is at least interval after
\* the sample of the last executed tick, however long ago the tick before
\* that was.
C15_TicksApart ==
  /\ [][(pc = "L88" /\ pc' = "L92") =>
          /\ (currentMillis - tickAt) % ULongMod >= interval
          /\ tickAt' = SampledAt /\ tickBefore' = tickAt]_vars
  /\ [](tickAt # 0 => tickAt - tickBefore >= interval)

\* a call 20 ms after a tick that executed 120 ms after its predecessor has
\* returned without executing, although two intervals have passed since the
\* predecessor
C15_Witness ==
  /\ pc = "L87"
  /\ tickBefore # 0
  /\ tickAt - tickBefore = 120
  /\ (currentMillis - tickAt) % ULongMod = 20
  /\ SampledAt - (tickBefore + interval) >= interval
\* C16: on an executed tick whose Compute() left Output1 as the previous tick
\* left it, the deadband step changes nothing and every write to motorPin1
\* and motorPin2 repeats the duty the previous tick wrote, so the magnitudes
\* at the end of the tick are those of the previous tick.
C16_NoOpRepeats ==
  /\ [][(staleTicks >= 1 /\ pc = "L121") => Output1' = Output1]_vars
  /\ [][(staleTicks >= 1
          /\ pc \in {"L128", "L129", "L132", "L133", "L136", "L137", "L138"})
         => (out1' = out1 /\ out2' = out2)]_vars

\* a tick whose Compute() was a no-op has ended with the reverse duty 7 that
\* the first tick wrote for its output of -7.5
C16_Witness ==
  /\ pc = "L141"
  /\ staleTicks >= 1
  /\ Output1 = -((15 * One) \div 2)
  /\ out1 = 0 /\ out2 = 7
\* C18: if every pulse width timeit() has captured lies in [pwmMin, pwmMax],
\* then from the start of the program, also before the first pulse has been
\* captured, filteredPWM lies in [1000, 2000] and Setpoint1 in [-200, 200].
C18_SetpointInRange ==
  (published \ {0}) \subseteq pwmMin..pwmMax =>
    /\ filteredPWM >= pwmMin * One /\ filteredPWM <= pwmMax * One
    /\ Setpoint1 >= outputMin * One /\ Setpoint1 <= outputMax * One
\* C19: the gate of lines 88-89 works for every value of the millisecond
\* counter, in the upper half of its range (where previousMillis, a signed
\* long, is negative) and across its wrap to 0: previousMillis holds the
\* sample of the last executed tick converted to long, and a call executes
\* a tick if and only if its sample was taken at least interval ms of true
\* time after that of the last executed tick.
C19_GateAcrossWrap ==
  /\ [](previousMillis = ToLong(tickAt % ULongMod))
  /\ [][(pc = "L88" /\ pc' # pc) =>
          ((pc' = "L92") <=> (SampledAt - tickAt >= interval))]_vars

\* a tick has executed on a sample taken after the wrap, the tick before it
\* having left a negative previousMillis from before the wrap
C19_Witness ==
  /\ pc = "L92"
  /\ tickBefore >= ULongMod \div 2 /\ tickBefore < ULongMod
  /\ tickAt >= ULongMod
  /\ currentMillis < interval
  /\ previousMillis = currentMillis
====
